---- MODULE Spec2Model ----
(***************************************************************************)
(* Model of the expressive-code-twoslash annotation compositor.            *)
(*                                                                         *)
(* A source line is a sequence of lexical tokens; every token is the       *)
(* literal text it stands for ("//", " ", "---cut---", ...).  The regular  *)
(* expressions of regex.ts are operators over such token sequences.        *)
(* Line indices are 0-based as in the source; sequences are 1-based, so    *)
(* line index k is element k+1.                                            *)
(***************************************************************************)
EXTENDS Integers, Sequences, FiniteSets, TLC

VARIABLES
    scope,                  \* which family of blocks the run draws its inputs from
    pc,                     \* position inside the preprocessCode hook
    code,                   \* the block's lines as authored
    lines,                  \* the host document: the block's current lines
    failed,                 \* a host document call threw
    reCutBeforeLastIndex,   \* reCutBefore.lastIndex (the regex has the g flag)
    tsFlags,                \* cleanFlags: tsFlags
    twoSlashFlags,          \* cleanFlags: twoSlashFlags
    preCut,                 \* processCutOffPoints: code (the split document)
    cutOffStart,            \* processCutOffPoints: cutOffStart
    cutOffEnd,              \* processCutOffPoints: cutOffEnd
    cutSections,            \* processCutOffPoints: cutSections
    linesToCut,             \* processCutOffPoints: linesToCut
    ecLen,                  \* preprocessCode: ecCodeBlock.length
    twoslash,               \* preprocessCode: the twoslasher's result
    annots,                 \* the annotations attached to each document line
    calls,                  \* the host document calls issued for the block, in order
    options,                \* the plugin options: languages, explicitTrigger
    codeBlock,              \* language and meta of the block handed to the hook
    compared,               \* compareNodes: the arguments of a call and its result
    pointer,                \* popup script: where the mouse pointer is
    popupAttached,          \* popup script: hoverAnnotation is a child of expressiveCodeBlock
    isMouseOverTooltip,     \* popup script: isMouseOverTooltip
    hideTimeout,            \* popup script: hideTimeout (0: undefined)
    timers,                 \* popup script: the pending setTimeout callbacks
    timerCount,             \* popup script: the timer ids handed out so far
    hideRuns,               \* popup script: hideTooltip runs since the last mouseenter on ToolTip
    removeChildThrew        \* popup script: removeChild threw NotFoundError

cutVars == <<reCutBeforeLastIndex, tsFlags, twoSlashFlags, preCut, cutOffStart,
             cutOffEnd, cutSections, linesToCut>>

pipeVars == <<ecLen, twoslash, annots, calls>>

hookVars == <<options, codeBlock>>

cmpVars == <<compared>>

popupVars == <<pointer, popupAttached, isMouseOverTooltip, hideTimeout, timers,
               timerCount, hideRuns, removeChildThrew>>

vars == <<scope, pc, code, lines, failed, cutVars, pipeVars, hookVars, cmpVars, popupVars>>

----------------------------------------------------------------------------
(* Bounds *)

MaxCutLines == 5

MaxFlagLines == 4

----------------------------------------------------------------------------
(* Generic helpers *)

Min(S) == CHOOSE x \in S : \A y \in S : x <= y

Max(S) == CHOOSE x \in S : \A y \in S : x >= y

SetOf(s) == {s[i] : i \in 1..Len(s)}

RECURSIVE SeqsUpTo(_, _)
SeqsUpTo(S, n) ==
    IF n = 0 THEN {<<>>}
    ELSE LET shorter == SeqsUpTo(S, n - 1)
         IN  shorter \cup {Append(s, x) : s \in {t \in shorter : Len(t) = n - 1}, x \in S}

\* Array.prototype.findIndex, given the 0-based indices whose element
\* satisfies the predicate: the least of them, or -1
FindIndex(hits) == IF hits = {} THEN -1 ELSE Min(hits)

Indices(arr) == 0..(Len(arr) - 1)

----------------------------------------------------------------------------
(* Lines as token sequences *)

Whitespace == {" ", "\t"}

TokLen(t) ==
    CASE t = "//" -> 2
      [] t = "---cut---" -> 9
      [] t = "---cut-before---" -> 16
      [] t = "---cut-after---" -> 15
      [] t = "---cut-start---" -> 15
      [] t = "---cut-end---" -> 13
      [] t = "strict" -> 6
      [] t = "ts-expect-error" -> 15
      [] OTHER -> 1

RECURSIVE LineLen(_)
LineLen(line) ==
    IF line = <<>> THEN 0 ELSE TokLen(Head(line)) + LineLen(Tail(line))

\* the position following a run of \s* that starts at position i
RECURSIVE SkipWs(_, _)
SkipWs(line, i) ==
    IF i <= Len(line) /\ line[i] \in Whitespace THEN SkipWs(line, i + 1) ELSE i

\* ^\s*\/\/\s*<body>\s*$ for one of the given bodies
MatchComment(line, bodies) ==
    LET i == SkipWs(line, 1)
    IN  /\ i <= Len(line)
        /\ line[i] = "//"
        /\ LET j == SkipWs(line, i + 1)
           IN  /\ j <= Len(line)
               /\ line[j] \in bodies
               /\ SkipWs(line, j + 1) = Len(line) + 1

PatCutBefore(line) == MatchComment(line, {"---cut---", "---cut-before---"})

reCutAfter(line) == MatchComment(line, {"---cut-after---"})

reCutStart(line) == MatchComment(line, {"---cut-start---"})

reCutEnd(line) == MatchComment(line, {"---cut-end---"})

\* the position following a run of \^+ that starts at position i
RECURSIVE SkipCarets(_, _)
SkipCarets(line, i) ==
    IF i <= Len(line) /\ line[i] = "^" THEN SkipCarets(line, i + 1) ELSE i

\* /^\s*\/\/\s*\^(\?|\||\^+)( .*)?$/gm used through String.prototype.match,
\* which resets lastIndex: non-null exactly when the line matches
reAnnonateMarkers(line) ==
    LET i == SkipWs(line, 1)
    IN  /\ i <= Len(line)
        /\ line[i] = "//"
        /\ LET j == SkipWs(line, i + 1)
           IN  /\ j + 1 <= Len(line)
               /\ line[j] = "^"
               /\ LET k == IF line[j + 1] \in {"?", "|"} THEN j + 2
                           ELSE SkipCarets(line, j + 1)
                  IN  /\ k > j + 1
                      /\ \/ k = Len(line) + 1
                         \/ line[k] = " "

\* line.startsWith("// @")
StartsWithFlag(line) ==
    /\ Len(line) >= 3
    /\ line[1] = "//"
    /\ line[2] = " "
    /\ line[3] = "@"

----------------------------------------------------------------------------
(* The stateful regex reCutBefore = /.../gm used through RegExp.test *)

\* reCutBefore.test(line) with lastIndex = li: the search starts at li and ^
\* matches only at the start of the line (a line holds no line terminator),
\* so it succeeds only from lastIndex 0; a match ends at the end of the line
\* and leaves lastIndex there, a failure resets lastIndex to 0
TestCutBefore(line, li) ==
    IF li = 0 /\ PatCutBefore(line)
    THEN [ok |-> TRUE, lastIndex |-> LineLen(line)]
    ELSE [ok |-> FALSE, lastIndex |-> 0]

\* code.findIndex((line) => reCutBefore.test(line)) from element i on
RECURSIVE FindCutBefore(_, _, _)
FindCutBefore(arr, i, li) ==
    IF i > Len(arr) THEN [idx |-> -1, lastIndex |-> li]
    ELSE LET r == TestCutBefore(arr[i], li)
         IN  IF r.ok THEN [idx |-> i - 1, lastIndex |-> r.lastIndex]
             ELSE FindCutBefore(arr, i + 1, r.lastIndex)

----------------------------------------------------------------------------
(* Host document model *)

\* codeBlock.code.split("\n"): a document without lines has the code "",
\* which splits into one empty line
SplitCode(doc) == IF doc = <<>> THEN << <<>> >> ELSE doc

RECURSIVE SortDesc(_)
SortDesc(s) ==
    IF s = <<>> THEN <<>>
    ELSE LET m == Max(SetOf(s))
             p == Min({i \in 1..Len(s) : s[i] = m})
         IN  <<m>> \o SortDesc(SubSeq(s, 1, p - 1) \o SubSeq(s, p + 1, Len(s)))

RemoveAt(doc, idx) == SubSeq(doc, 1, idx) \o SubSeq(doc, idx + 2, Len(doc))

\* codeBlock.deleteLines(indices): the indices are deleted in descending
\* order; a repeated index or an index outside the document throws, with the
\* deletions made so far kept
RECURSIVE DeleteSorted(_, _, _)
DeleteSorted(doc, sorted, last) ==
    IF sorted = <<>> THEN [doc |-> doc, threw |-> FALSE]
    ELSE LET idx == Head(sorted)
         IN  IF idx = last \/ idx < 0 \/ idx >= Len(doc)
             THEN [doc |-> doc, threw |-> TRUE]
             ELSE DeleteSorted(RemoveAt(doc, idx), Tail(sorted), idx)

DeleteLines(doc, indices) == DeleteSorted(doc, SortDesc(indices), -1)

----------------------------------------------------------------------------
(* helpers.ts: cleanFlags *)

cleanTSFlags(arr) ==
    SelectSeq([i \in 1..Len(arr) |-> i - 1], LAMBDA idx : StartsWithFlag(arr[idx + 1]))

cleanTwoSlashFlags(arr) ==
    SelectSeq([i \in 1..Len(arr) |-> i - 1], LAMBDA idx : reAnnonateMarkers(arr[idx + 1]))


----------------------------------------------------------------------------
(* helpers.ts: processCutOffPoints *)

counter(start, end) == [i \in 1..(end - start + 1) |-> start + i - 1]

\* mutant: the section runs to the last cut-end line of the block
FarthestCutEnd(arr, cutBetweenStart) ==
    LET hits == {index \in Indices(arr) : index > cutBetweenStart /\ reCutEnd(arr[index + 1])}
    IN  IF hits = {} THEN -1 ELSE Max(hits)

NextCutStart(arr, currentIndex) ==
    FindIndex({index \in Indices(arr) : index >= currentIndex /\ reCutStart(arr[index + 1])})

NextCutEnd(arr, cutBetweenStart) ==
    FindIndex({index \in Indices(arr) : index > cutBetweenStart /\ reCutEnd(arr[index + 1])})

\* mutant: the scan stops after the first pair (an if where the while stands)
ScanFirstSectionOnly(arr, currentIndex, found) ==
    LET cutBetweenStart == NextCutStart(arr, currentIndex)
        cutBetweenEnd == NextCutEnd(arr, cutBetweenStart)
    IN  IF currentIndex < Len(arr) /\ cutBetweenStart # -1 /\ cutBetweenEnd # -1
        THEN Append(found, [start |-> cutBetweenStart, end |-> cutBetweenEnd])
        ELSE found

\* mutant: the cursor moves two lines past the cut-end line
RECURSIVE ScanCutSkippingLine(_, _, _)
ScanCutSkippingLine(arr, currentIndex, found) ==
    IF currentIndex < Len(arr)
    THEN LET cutBetweenStart == NextCutStart(arr, currentIndex)
             cutBetweenEnd == NextCutEnd(arr, cutBetweenStart)
         IN  IF cutBetweenStart # -1 /\ cutBetweenEnd # -1
             THEN ScanCutSkippingLine(arr, cutBetweenEnd + 2,
                      Append(found, [start |-> cutBetweenStart, end |-> cutBetweenEnd]))
             ELSE found
    ELSE found

\* mutant: a cut-start without a cut-end opens a section that runs to the
\* last line
RECURSIVE ScanCutToEnd(_, _, _)
ScanCutToEnd(arr, currentIndex, found) ==
    IF currentIndex < Len(arr)
    THEN LET cutBetweenStart == NextCutStart(arr, currentIndex)
             cutBetweenEnd == NextCutEnd(arr, cutBetweenStart)
         IN  IF cutBetweenStart # -1 /\ cutBetweenEnd # -1
             THEN ScanCutToEnd(arr, cutBetweenEnd + 1,
                      Append(found, [start |-> cutBetweenStart, end |-> cutBetweenEnd]))
             ELSE IF cutBetweenStart # -1
             THEN Append(found, [start |-> cutBetweenStart, end |-> Len(arr) - 1])
             ELSE found
    ELSE found

RECURSIVE ScanCutSections(_, _, _)
ScanCutSections(arr, currentIndex, found) ==
    IF currentIndex < Len(arr)
    THEN LET cutBetweenStart == NextCutStart(arr, currentIndex)
             cutBetweenEnd == NextCutEnd(arr, cutBetweenStart)
         IN  IF cutBetweenStart # -1 /\ cutBetweenEnd # -1
             THEN ScanCutSections(arr, cutBetweenEnd + 1,
                      Append(found, [start |-> cutBetweenStart, end |-> cutBetweenEnd]))
             ELSE found
    ELSE found

RECURSIVE SectionLines(_)
SectionLines(sections) ==
    IF sections = <<>> THEN <<>>
    ELSE counter(Head(sections).start, Head(sections).end) \o SectionLines(Tail(sections))

CutList(arr, start, end, sections) ==
    (IF start # -1 THEN counter(0, start) ELSE <<>>)
    \o (IF end # -1 THEN counter(end, Len(arr) - 1) ELSE <<>>)
    \o SectionLines(sections)

----------------------------------------------------------------------------
(* Blocks an author may write *)

CutVocab ==
    { <<"x">>,
      <<"//", " ", "---cut---">>,
      <<"//", " ", "---cut-before---">>,
      <<"//", " ", "---cut-after---">>,
      <<"//", " ", "---cut-start---">>,
      <<"//", " ", "---cut-end---">> }

FlagVocab ==
    { <<"x">>,
      <<"//", " ", "@", "strict">>,
      <<"//", " ", "@", "ts-expect-error">>,
      <<"//", " ", "^", "?">>,
      <<"//", " ", "^", "|">>,
      <<"\t", "//", " ", "^", "?">>,
      <<"x", " ", "//", " ", "^", "?">>,
      <<"//", " ", "---cut---">>,
      <<"x", " ", "//", " ", "---cut---">> }

Blocks(V, n) == SeqsUpTo(V, n) \ {<<>>}

BlocksOf(sc) ==
    IF sc = "cut" THEN Blocks(CutVocab, MaxCutLines) ELSE Blocks(FlagVocab, MaxFlagLines)

----------------------------------------------------------------------------
(* helpers.ts: checkForCustomTagsAndMerge *)

twoslashDefaultTags == <<"annotate", "log", "warn", "error">>

MaxCustomTags == 3

\* twoslashOptions is undefined
NoTwoslashOptions == [defined |-> FALSE, hasCustomTags |-> FALSE, customTags |-> <<>>]

\* twoslashOptions with or without a customTags list
TwoslashOptions(hasCustomTags, customTags) ==
    [defined |-> TRUE, hasCustomTags |-> hasCustomTags, customTags |-> customTags]

\* mutant: every custom tag is pushed, the includes test is gone
RECURSIVE PushAllTags(_, _)
PushAllTags(allTags, customTags) ==
    IF customTags = <<>> THEN allTags
    ELSE PushAllTags(Append(allTags, Head(customTags)), Tail(customTags))

\* for (const tag of customTags) if (!allTags.includes(tag)) allTags.push(tag)
RECURSIVE PushNewTags(_, _)
PushNewTags(allTags, customTags) ==
    IF customTags = <<>> THEN allTags
    ELSE LET tag == Head(customTags)
         IN  PushNewTags(IF tag \in SetOf(allTags) THEN allTags ELSE Append(allTags, tag),
                         Tail(customTags))

checkForCustomTagsAndMerge(twoslashOptions) ==
    LET customTags == IF twoslashOptions.defined /\ twoslashOptions.hasCustomTags
                      THEN twoslashOptions.customTags
                      ELSE <<>>
    IN  TwoslashOptions(TRUE, PushNewTags(twoslashDefaultTags, customTags))

\* the twoslashOptions a user may configure
TagInputs ==
    {NoTwoslashOptions, TwoslashOptions(FALSE, <<>>)}
        \cup {TwoslashOptions(TRUE, tags) :
                 tags \in SeqsUpTo({"log", "error", "todo", "note"}, MaxCustomTags)}

----------------------------------------------------------------------------
(* helpers.ts: buildMetaChecker; index.ts: the plugin options *)

\* The meta string of a block is a sequence of tokens; "twoslash", "x" and
\* "title" are runs of word characters, " " and "-" are not.
WordTokens == {"twoslash", "x", "title"}

MaxMetaTokens == 3

\* reTrigger = /\btwoslash\b/ : "twoslash" with a word boundary on each side
reTrigger(meta) ==
    \E i \in 1..Len(meta) :
        /\ meta[i] = "twoslash"
        /\ (IF i = 1 THEN TRUE ELSE meta[i - 1] \notin WordTokens)
        /\ (IF i = Len(meta) THEN TRUE ELSE meta[i + 1] \notin WordTokens)

\* RegExp.prototype.test of the regular expressions a user may configure:
\* /twoslash/ and /^title/
RegExpTest(source, meta) ==
    IF source = "twoslash" THEN \E i \in 1..Len(meta) : meta[i] = "twoslash"
    ELSE Len(meta) > 0 /\ meta[1] = "title"

\* explicitTrigger as a boolean
Bool(b) == [isRegExp |-> FALSE, value |-> b, source |-> ""]

\* explicitTrigger as a RegExp (a truthy object)
RegExp(source) == [isRegExp |-> TRUE, value |-> TRUE, source |-> source]

\* const { explicitTrigger = true, languages = ["ts", "tsx"] } = options
DefaultOptions ==
    [languages |-> <<"ts", "tsx">>, explicitTrigger |-> Bool(TRUE),
     twoslashOptions |-> NoTwoslashOptions, merged |-> NoTwoslashOptions,
     forwarded |-> NoTwoslashOptions]

\* mutant: the user's RegExp is ignored, reTrigger is always tested
shouldTransformDefaultTrigger(opts, cb) ==
    /\ cb.language \in SetOf(opts.languages)
    /\ (~opts.explicitTrigger.value \/ reTrigger(cb.meta))

\* buildMetaChecker(languages, explicitTrigger)(codeBlock)
shouldTransform(opts, cb) ==
    LET trigger(meta) ==
            IF opts.explicitTrigger.isRegExp
            THEN RegExpTest(opts.explicitTrigger.source, meta)
            ELSE reTrigger(meta)
    IN  /\ cb.language \in SetOf(opts.languages)
        /\ (~opts.explicitTrigger.value \/ trigger(cb.meta))

NoCodeBlock == [language |-> "", meta |-> <<>>]

\* the options the plugin is configured with
OptionsOf(sc) ==
    IF sc = "trigger"
    THEN {[DefaultOptions EXCEPT !.languages = ls, !.explicitTrigger = t] :
             ls \in {<<"ts", "tsx">>, <<"js">>},
             t \in {Bool(TRUE), Bool(FALSE), RegExp("twoslash"), RegExp("title")}}
    ELSE IF sc = "tags"
    THEN {[DefaultOptions EXCEPT !.twoslashOptions = given] : given \in TagInputs}
    ELSE {DefaultOptions}

\* language and meta of the blocks of a document
CodeBlocksOf(sc) ==
    IF sc = "trigger"
    THEN {[language |-> l, meta |-> m] :
             l \in {"ts", "js", "md"},
             m \in SeqsUpTo({"twoslash", "x", "title", " ", "-"}, MaxMetaTokens)}
    ELSE {[language |-> "ts", meta |-> <<"twoslash">>], [language |-> "ts", meta |-> <<>>]}

----------------------------------------------------------------------------
(* The preprocessCode hook, block after block *)

\* the hook is entered with a block that shouldTransform accepts
NewBlock ==
    /\ pc = "idle"
    /\ \E b \in BlocksOf(scope) :
        /\ code' = b
        /\ lines' = b
    /\ pc' = "loaded"
    /\ failed' = FALSE
    /\ UNCHANGED <<scope, cutVars, pipeVars, hookVars, cmpVars, popupVars>>

cleanFlags ==
    /\ pc = "loaded"
    /\ LET arr == SplitCode(lines)
           linesToRemove == cleanTSFlags(arr) \o cleanTwoSlashFlags(arr)
           res == DeleteLines(lines, linesToRemove)
       IN  /\ tsFlags' = cleanTSFlags(arr)
           /\ twoSlashFlags' = cleanTwoSlashFlags(arr)
           /\ lines' = IF linesToRemove # <<>> THEN res.doc ELSE lines
           /\ failed' = (linesToRemove # <<>> /\ res.threw)
           /\ pc' = IF linesToRemove # <<>> /\ res.threw THEN "failed" ELSE "cleaned"
    /\ UNCHANGED <<scope, code, reCutBeforeLastIndex, preCut, cutOffStart, cutOffEnd,
                   cutSections, linesToCut, pipeVars, hookVars, cmpVars, popupVars>>

processCutOffPoints ==
    /\ pc = "cleaned"
    /\ LET arr == SplitCode(lines)
           before == FindCutBefore(arr, 1, reCutBeforeLastIndex)
           after == FindIndex({index \in Indices(arr) : reCutAfter(arr[index + 1])})
           sections == ScanCutSections(arr, 0, <<>>)
           cut == CutList(arr, before.idx, after, sections)
           res == DeleteLines(lines, cut)
       IN  /\ preCut' = arr
           /\ reCutBeforeLastIndex' = before.lastIndex
           /\ cutOffStart' = before.idx
           /\ cutOffEnd' = after
           /\ cutSections' = sections
           /\ linesToCut' = cut
           /\ lines' = IF cut # <<>> THEN res.doc ELSE lines
           /\ failed' = (cut # <<>> /\ res.threw)
           /\ pc' = IF cut # <<>> /\ res.threw THEN "failed" ELSE "cut"
    /\ UNCHANGED <<scope, code, tsFlags, twoSlashFlags, pipeVars, hookVars, cmpVars, popupVars>>

\* the hook returns (or the exception leaves it); the module-level regex
\* object outlives the block
EndBlock ==
    /\ pc \in {"cut", "failed"}
    /\ pc' = "idle"
    /\ code' = <<>>
    /\ lines' = <<>>
    /\ failed' = FALSE
    /\ tsFlags' = <<>>
    /\ twoSlashFlags' = <<>>
    /\ preCut' = <<>>
    /\ cutOffStart' = -1
    /\ cutOffEnd' = -1
    /\ cutSections' = <<>>
    /\ linesToCut' = <<>>
    /\ UNCHANGED <<scope, reCutBeforeLastIndex, pipeVars, hookVars, cmpVars, popupVars>>

NoResult ==
    [code |-> <<>>, errors |-> <<>>, queries |-> <<>>, highlights |-> <<>>,
     hovers |-> <<>>, completions |-> <<>>, tags |-> <<>>]

\* where the pointer is when setupTooltip has installed the listeners: the
\* module script runs after the page is shown, so the pointer may rest on
\* the hover target already; the popup is detached by then
PointersOf(sc) == IF sc = "popup" THEN {"outside", "target"} ELSE {"outside"}

\* no compareNodes call was made yet
NoNode ==
    [type |-> "none", line |-> 0, character |-> 0, start |-> 0, length |-> 0,
     text |-> "", completions |-> <<>>]

NoComparison ==
    [called |-> FALSE, node1 |-> NoNode, node2 |-> NoNode, checks |-> {}, result |-> FALSE]

InitBlock(sc) ==
    /\ scope = sc
    /\ ecLen = 0
    /\ twoslash = NoResult
    /\ annots = <<>>
    /\ calls = <<>>
    /\ options \in OptionsOf(sc)
    /\ codeBlock = NoCodeBlock
    /\ compared = NoComparison
    /\ pointer \in PointersOf(sc)
    /\ popupAttached = FALSE
    /\ isMouseOverTooltip = FALSE
    /\ hideTimeout = 0
    /\ timers = {}
    /\ timerCount = 0
    /\ hideRuns = 0
    /\ removeChildThrew = FALSE
    /\ pc = "idle"
    /\ code = <<>>
    /\ lines = <<>>
    /\ failed = FALSE
    /\ reCutBeforeLastIndex = 0
    /\ tsFlags = <<>>
    /\ twoSlashFlags = <<>>
    /\ preCut = <<>>
    /\ cutOffStart = -1
    /\ cutOffEnd = -1
    /\ cutSections = <<>>
    /\ linesToCut = <<>>

InitCut == InitBlock("cut")

InitFlags == InitBlock("flags")

NextBlock == NewBlock \/ cleanFlags \/ processCutOffPoints \/ EndBlock

SpecCut == InitCut /\ [][NextBlock]_vars

SpecFlags == InitFlags /\ [][NextBlock]_vars

----------------------------------------------------------------------------
(* Semantic facts of the twoslasher *)

\* the rewritten text of line i: i+1 characters "x"
NewText(i) == [k \in 1..(i + 1) |-> "x"]

NewCode(n) == [i \in 1..n |-> NewText(i - 1)]

\* the text of an authored line before the rewrite
OldText == <<"y">>

\* offset of the first character of line l in the text (lines joined by "\n")
RECURSIVE LineStart(_, _)
LineStart(text, l) ==
    IF l = 0 THEN 0 ELSE LineStart(text, l - 1) + LineLen(text[l]) + 1

\* a position-anchored node: start is the offset of (line, character)
Node(type, text, l, c, len, label) ==
    [type |-> type, line |-> l, character |-> c, start |-> LineStart(text, l) + c,
     length |-> len, text |-> label, completions |-> <<>>]

FactLines(text) == {l \in {0, 1} : l < Len(text)}

ListsUpToOne(S) == {<<>>} \cup {<<x>> : x \in S}

HoverNodes(text) ==
    {Node("hover", text, l, c, 1, t) : l \in FactLines(text), c \in {0, 1}, t \in {"T", "U"}}

QueryNodes(text) ==
    {Node("query", text, l, 0, 1, t) : l \in FactLines(text), t \in {"T", "U"}}

ErrorNodes(text) ==
    {Node("error", text, l, c, len, "E") :
        l \in FactLines(text), c \in {0, 1}, len \in {1, 2}}

HighlightNodes(text) == {Node("highlight", text, 0, 0, 1, "")}

CompletionNodes(text) ==
    {Node("completion", text, l, c, 0, "") : l \in FactLines(text), c \in {0, 1}}

TagNodes(text) == {Node("tag", text, l, 0, 0, "log") : l \in FactLines(text)}

\* the candidates a completion fact may list
Candidates ==
    { [name |-> "a", kind |-> "", kindModifiers |-> <<"absent">>],
      [name |-> "b", kind |-> "method", kindModifiers |-> <<"deprecated">>],
      [name |-> "c", kind |-> "const", kindModifiers |-> <<"declare", "deprecated">>] }

----------------------------------------------------------------------------
(* helpers.ts: compareNodes, processCompletion *)

isNodeCompletion(node) == node.type = "completion"

\* mutant: the text check is made for completions too
compareNodesWithText(node1, node2, checks) ==
    /\ "line" \in checks => node1.line = node2.line
    /\ "start" \in checks => node1.start = node2.start
    /\ "character" \in checks => node1.character = node2.character
    /\ "length" \in checks => node1.length = node2.length
    /\ "text" \in checks => node1.text = node2.text

compareNodes(node1, node2, checks) ==
    IF "line" \in checks /\ node1.line # node2.line THEN FALSE
    ELSE IF "start" \in checks /\ node1.start # node2.start THEN FALSE
    ELSE IF "character" \in checks /\ node1.character # node2.character THEN FALSE
    ELSE IF "length" \in checks /\ node1.length # node2.length THEN FALSE
    ELSE IF /\ ~isNodeCompletion(node1)
            /\ ~isNodeCompletion(node2)
            /\ "text" \in checks
            /\ node1.text # node2.text THEN FALSE
    ELSE TRUE

\* the fields of the checks argument
CheckFields == {"line", "start", "character", "length", "text"}

\* the nodes handed to compareNodes: two kinds, two values of every field
ComparedNodes ==
    {[type |-> type, line |-> l, character |-> c, start |-> s, length |-> len,
      text |-> t, completions |-> <<>>] :
        type \in {"hover", "completion"}, l \in {0, 1}, c \in {0, 1}, s \in {0, 1},
        len \in {1, 2}, t \in {"T", "U"}}

CompletionItemLimit == 5

\* one entry of completion.completions.map(...)
CompletionEntry(c) ==
    [name |-> c.name,
     kind |-> IF c.kind = "" THEN "property" ELSE c.kind,
     isDeprecated |-> c.kindModifiers # <<"absent">> /\ "deprecated" \in SetOf(c.kindModifiers)]

\* mutant: slice(1, 6) where slice(0, 5) stands
processCompletionSkipFirst(completion) ==
    LET mapped == [i \in 1..Len(completion.completions) |->
                      CompletionEntry(completion.completions[i])]
    IN  [startCharacter |-> completion.character,
         start |-> completion.start,
         length |-> completion.start - completion.character,
         items |-> SubSeq(mapped, 2, Min({Len(mapped), CompletionItemLimit + 1}))]

processCompletion(completion) ==
    LET mapped == [i \in 1..Len(completion.completions) |->
                      CompletionEntry(completion.completions[i])]
    IN  [startCharacter |-> completion.character,
         start |-> completion.start,
         length |-> completion.start - completion.character,
         items |-> SubSeq(mapped, 1, Min({Len(mapped), CompletionItemLimit}))]

----------------------------------------------------------------------------
(* Annotations *)

Ann(kind, node, columnStart, columnEnd, completion) ==
    [kind |-> kind, node |-> node, columnStart |-> columnStart, columnEnd |-> columnEnd,
     completion |-> completion]

NoItem == [startCharacter |-> 0, start |-> 0, length |-> 0, items |-> <<>>]

TwoslashErrorUnderlineAnnotation(error) ==
    Ann("error-underline", error, error.character, error.character + error.length, NoItem)

TwoslashErrorBoxAnnotation(error, text) ==
    Ann("error-box", error, LineLen(text), LineLen(text) + error.length, NoItem)

TwoslashStaticAnnotation(query, text) ==
    Ann("static", query, LineLen(text), LineLen(text) + query.length, NoItem)

TwoslashHighlightAnnotation(highlight) ==
    Ann("highlight", highlight, highlight.start, highlight.start + highlight.length, NoItem)

TwoslashHoverAnnotation(hover) ==
    Ann("hover", hover, hover.character, hover.character + hover.length, NoItem)

TwoslashCompletionAnnotation(completion, query, text) ==
    Ann("completion", query, completion.startCharacter,
        completion.startCharacter + LineLen(text), completion)

TwoslashCustomTagsAnnotation(tag, text) ==
    Ann("tag", tag, 0, LineLen(text), NoItem)

\* codeBlock.getLine(index) is defined
HasLine(doc, index) == index >= 0 /\ index < Len(doc)

\* one call of the host document: the line index it targets and the length
\* of the document when it is made
Call(op, line, docLen, ann) == [op |-> op, line |-> line, docLen |-> docLen, ann |-> ann]

AddCall(line, ann, doc) == Call("addAnnotation", line, Len(doc), ann)

DeleteAnnotationCall(line, ann, doc) == Call("deleteAnnotation", line, Len(doc), ann)

\* line.addAnnotation for every call of the list, in order
RECURSIVE Attach(_, _)
Attach(as, adds) ==
    IF adds = <<>> THEN as
    ELSE Attach([as EXCEPT ![Head(adds).line + 1] = Append(@, Head(adds).ann)], Tail(adds))

----------------------------------------------------------------------------
(* index.ts: preprocessCode, the reconciliation of the document text *)

\* includes.applyInclude lengthens the analysed text by the lines the
\* included snippets add
applyInclude(doc, added) == Len(doc) + added

\* for (const line of twoslashCodeBlock) { ln = getLine(index); if (ln) editText }
EditLines(doc, rewritten) ==
    [i \in 1..Len(doc) |-> IF i <= Len(rewritten) THEN rewritten[i] ELSE doc[i]]

EditCalls(doc, rewritten) ==
    [i \in 1..Min({Len(doc), Len(rewritten)}) |->
        Call("editText", i - 1, Len(doc), <<>>)]

\* for (i = twoslashCodeBlock.length; i < ecCodeBlock.length; i++)
\*     codeBlock.deleteLine(twoslashCodeBlock.length)
\* deleteLine throws when the index is outside the document
RECURSIVE DeleteSurplus(_, _, _, _, _)
DeleteSurplus(doc, as, log, i, bounds) ==
    IF i >= bounds.ec THEN [doc |-> doc, annots |-> as, calls |-> log, threw |-> FALSE]
    ELSE LET call == Call("deleteLine", bounds.n, Len(doc), <<>>)
         IN  IF ~HasLine(doc, bounds.n)
             THEN [doc |-> doc, annots |-> as, calls |-> Append(log, call), threw |-> TRUE]
             ELSE DeleteSurplus(RemoveAt(doc, bounds.n), RemoveAt(as, bounds.n),
                                Append(log, call), i + 1, bounds)

----------------------------------------------------------------------------
(* index.ts: preprocessCode, the annotation loops *)

RECURSIVE ErrorAdds(_, _)
ErrorAdds(nodes, doc) ==
    IF nodes = <<>> THEN <<>>
    ELSE LET node == Head(nodes)
         IN  (IF HasLine(doc, node.line)
              THEN <<AddCall(node.line, TwoslashErrorUnderlineAnnotation(node), doc),
                     AddCall(node.line, TwoslashErrorBoxAnnotation(node, doc[node.line + 1]), doc)>>
              ELSE <<>>)
             \o ErrorAdds(Tail(nodes), doc)

RECURSIVE QueryAdds(_, _)
QueryAdds(nodes, doc) ==
    IF nodes = <<>> THEN <<>>
    ELSE LET node == Head(nodes)
         IN  (IF HasLine(doc, node.line)
              THEN <<AddCall(node.line, TwoslashStaticAnnotation(node, doc[node.line + 1]), doc)>>
              ELSE <<>>)
             \o QueryAdds(Tail(nodes), doc)

RECURSIVE HighlightAdds(_, _)
HighlightAdds(nodes, doc) ==
    IF nodes = <<>> THEN <<>>
    ELSE LET node == Head(nodes)
         IN  (IF HasLine(doc, node.line)
              THEN <<AddCall(node.line, TwoslashHighlightAnnotation(node), doc)>>
              ELSE <<>>)
             \o HighlightAdds(Tail(nodes), doc)

\* twoslash.queries.find((q) => compareNodes(q, node, { line: true, text: true }))
HasQueryFor(node, tw) ==
    \E i \in 1..Len(tw.queries) : compareNodes(tw.queries[i], node, {"line", "text"})

\* twoslash.errors.find((e) => compareNodes(e, node, { line, start, length, character }))
HasErrorFor(node, tw) ==
    \E i \in 1..Len(tw.errors) :
        compareNodes(tw.errors[i], node, {"line", "start", "length", "character"})

\* mutant: the query lookup compares the text only
SkipHoverAnyLine(node, tw) ==
    \/ \E i \in 1..Len(tw.queries) : tw.queries[i].text = node.text
    \/ HasErrorFor(node, tw)

\* mutant: the hover loop forgets the query lookup
SkipHoverErrorOnly(node, tw) == HasErrorFor(node, tw)

\* mutant: the hover loop forgets the error lookup
SkipHoverQueryOnly(node, tw) == HasQueryFor(node, tw)

\* if (query || error) continue
SkipHover(node, tw) == HasQueryFor(node, tw) \/ HasErrorFor(node, tw)

RECURSIVE HoverAdds(_, _, _)
HoverAdds(nodes, tw, doc) ==
    IF nodes = <<>> THEN <<>>
    ELSE LET node == Head(nodes)
         IN  (IF ~SkipHover(node, tw) /\ HasLine(doc, node.line)
              THEN <<AddCall(node.line, TwoslashHoverAnnotation(node), doc)>>
              ELSE <<>>)
             \o HoverAdds(Tail(nodes), tw, doc)

\* mutant: a tag whose line does not exist is attached to the last line
RECURSIVE TagAddsClamped(_, _)
TagAddsClamped(nodes, doc) ==
    IF nodes = <<>> THEN <<>>
    ELSE LET node == Head(nodes)
             l == Min({node.line, Len(doc) - 1})
         IN  <<AddCall(l, TwoslashCustomTagsAnnotation(node, doc[l + 1]), doc)>>
             \o TagAddsClamped(Tail(nodes), doc)

RECURSIVE TagAdds(_, _)
TagAdds(nodes, doc) ==
    IF nodes = <<>> THEN <<>>
    ELSE LET node == Head(nodes)
         IN  (IF HasLine(doc, node.line)
              THEN <<AddCall(node.line, TwoslashCustomTagsAnnotation(node, doc[node.line + 1]), doc)>>
              ELSE <<>>)
             \o TagAdds(Tail(nodes), doc)

\* the inline range of a hover annotation after the completion was looked at
AdjustHover(a, proccessed) ==
    IF /\ a.kind = "hover"
       /\ proccessed.startCharacter >= a.columnStart
       /\ proccessed.startCharacter <= a.columnEnd
    THEN [a EXCEPT !.columnStart = proccessed.startCharacter]
    ELSE a

\* mutant: the deletion test forgets the instanceof TwoslashHoverAnnotation filter
DropsAnyKind(a, proccessed) ==
    /\ a.node.start = proccessed.startCharacter
    /\ a.node.length = proccessed.length

\* the hover annotation is handed to line.deleteAnnotation
DropsHover(a, proccessed) ==
    /\ a.kind = "hover"
    /\ a.node.start = proccessed.startCharacter
    /\ a.node.length = proccessed.length

\* the annotations of the line after the loop over currentHoverAnnotations
HoversResolved(lineAnns, proccessed) ==
    LET adjusted == [i \in 1..Len(lineAnns) |-> AdjustHover(lineAnns[i], proccessed)]
    IN  SelectSeq(adjusted, LAMBDA a : ~DropsHover(a, proccessed))

HoverDeletes(line, lineAnns, proccessed, doc) ==
    LET adjusted == [i \in 1..Len(lineAnns) |-> AdjustHover(lineAnns[i], proccessed)]
        dropped == SelectSeq(adjusted, LAMBDA a : DropsHover(a, proccessed))
    IN  [i \in 1..Len(dropped) |-> DeleteAnnotationCall(line, dropped[i], doc)]

RECURSIVE CompletionLoop(_, _, _, _)
CompletionLoop(nodes, doc, as, log) ==
    IF nodes = <<>> THEN [annots |-> as, calls |-> log]
    ELSE LET node == Head(nodes)
             proccessed == processCompletion(node)
         IN  IF HasLine(doc, node.line)
             THEN LET add == AddCall(node.line,
                                 TwoslashCompletionAnnotation(proccessed, node, doc[node.line + 1]),
                                 doc)
                      kept == HoversResolved(as[node.line + 1], proccessed)
                  IN  CompletionLoop(Tail(nodes), doc,
                          [as EXCEPT ![node.line + 1] = Append(kept, add.ann)],
                          log \o HoverDeletes(node.line, as[node.line + 1], proccessed, doc)
                              \o <<add>>)
             ELSE CompletionLoop(Tail(nodes), doc, as, log)

----------------------------------------------------------------------------
(* Blocks and analyser results the runs draw from *)

MaxDocLines == 3

MaxIncludeLines == 2

MaxNewLines == 4

MaxCandidates == 6

\* [m, added, n]: lines of the block, lines its includes add, lines of twoslash.code
Shapes(sc) ==
    IF sc = "reconcile"
    THEN {[m |-> m, added |-> a, n |-> n] :
             m \in 1..MaxDocLines, a \in 0..MaxIncludeLines, n \in 1..MaxNewLines}
    ELSE IF sc = "annotate"
    THEN {[m |-> 2, added |-> 0, n |-> 2], [m |-> 2, added |-> 0, n |-> 1]}
    ELSE IF sc = "unresolved"
    THEN {[m |-> 1, added |-> 0, n |-> 2]}
    ELSE IF sc = "overlap"
    THEN {[m |-> 2, added |-> 0, n |-> 2]}
    ELSE IF sc = "trigger"
    THEN {[m |-> 2, added |-> 0, n |-> 1]}
    ELSE {[m |-> 1, added |-> 0, n |-> 1], [m |-> 2, added |-> 0, n |-> 2]}

\* the fact lists the twoslasher may return for the rewritten text
Results(sc, text) ==
    IF sc = "reconcile"
    THEN {[NoResult EXCEPT !.code = text, !.errors = e] :
             e \in ListsUpToOne({Node("error", text, 0, 0, 1, "E")})}
    ELSE IF sc = "annotate"
    THEN {[code |-> text, errors |-> e, queries |-> q, highlights |-> hl, hovers |-> h,
           completions |-> c, tags |-> t] :
             e \in ListsUpToOne(ErrorNodes(text)),
             q \in ListsUpToOne(QueryNodes(text)),
             hl \in ListsUpToOne(HighlightNodes(text)),
             h \in SeqsUpTo(HoverNodes(text), 2),
             c \in ListsUpToOne(CompletionNodes(text)),
             t \in ListsUpToOne(TagNodes(text))}
    ELSE IF sc = "unresolved"
    THEN {[code |-> text, errors |-> e, queries |-> q, highlights |-> hl, hovers |-> h,
           completions |-> c, tags |-> t] :
             e \in ListsUpToOne({Node("error", text, l, 0, 1, "E") : l \in FactLines(text)}),
             q \in ListsUpToOne({Node("query", text, l, 0, 1, "T") : l \in FactLines(text)}),
             hl \in ListsUpToOne({Node("highlight", text, l, 0, 1, "") : l \in FactLines(text)}),
             h \in SeqsUpTo({Node("hover", text, l, 0, 1, "U") : l \in FactLines(text)}, 2),
             c \in ListsUpToOne({Node("completion", text, l, 0, 0, "") : l \in FactLines(text)}),
             t \in ListsUpToOne(TagNodes(text))}
    ELSE IF sc = "trigger"
    THEN {[NoResult EXCEPT !.code = text, !.errors = <<Node("error", text, 0, 0, 1, "E")>>]}
    ELSE IF sc = "overlap"
    THEN \* facts that meet on line 1, whose first character has offset 2
         {[code |-> text, errors |-> e, queries |-> q, highlights |-> <<>>, hovers |-> h,
           completions |-> c, tags |-> t] :
             e \in ListsUpToOne({Node("error", text, l, 0, len, "E") :
                                     l \in FactLines(text), len \in {1, 2}}),
             q \in ListsUpToOne({Node("query", text, 1, 0, 1, "T")}),
             h \in SeqsUpTo({Node("hover", text, 1, c, len, "U") :
                                 c \in {0, 1}, len \in {1, 2}}, 2),
             c \in ListsUpToOne({Node("completion", text, 1, c, 0, "") : c \in {0, 1, 2}}),
             t \in ListsUpToOne(TagNodes(text))}
    ELSE \* a completion at the end of the last line, hovers before it
         LET l == Len(text) - 1
         IN  {[NoResult EXCEPT !.code = text, !.hovers = h, !.completions = <<c>>] :
                 h \in ListsUpToOne({Node("hover", text, l, c, len, "T") :
                                         c \in {0, 1}, len \in {0, 1, 2}}),
                 c \in {[Node("completion", text, l, LineLen(text[l + 1]), 0, "")
                            EXCEPT !.completions = cs] :
                           cs \in SeqsUpTo(Candidates, MaxCandidates)}}

----------------------------------------------------------------------------
(* The preprocessCode hook of the plugin, phase after phase *)

\* if (shouldTransform(codeBlock)) is false: the hook leaves the block alone
SkipBlock ==
    /\ pc = "idle"
    /\ \E cb \in CodeBlocksOf(scope) :
        /\ ~shouldTransform(options, cb)
        /\ codeBlock' = cb
    /\ \E shape \in Shapes(scope) :
        LET block == [i \in 1..shape.m |-> OldText]
        IN  /\ code' = block
            /\ lines' = block
            /\ annots' = [i \in 1..shape.m |-> <<>>]
    /\ calls' = <<>>
    /\ failed' = FALSE
    /\ pc' = "skipped"
    /\ UNCHANGED <<scope, options, cutVars, ecLen, twoslash, cmpVars, popupVars>>

\* includes.applyInclude, twoslasher
Twoslasher ==
    /\ pc = "idle"
    /\ \E cb \in CodeBlocksOf(scope) :
        /\ shouldTransform(options, cb)
        /\ codeBlock' = cb
    /\ \E shape \in Shapes(scope) :
        LET block == [i \in 1..shape.m |-> OldText]
        IN  /\ code' = block
            /\ lines' = block
            /\ annots' = [i \in 1..shape.m |-> <<>>]
            /\ ecLen' = applyInclude(block, shape.added)
            /\ \E result \in Results(scope, NewCode(shape.n)) : twoslash' = result
    /\ calls' = <<>>
    /\ failed' = FALSE
    /\ pc' = "analysed"
    /\ UNCHANGED <<scope, options, cutVars, cmpVars, popupVars>>

\* "Replace the EC code block with the Twoslash code block" and
\* "Remove any extra lines from the EC code block"
ReplaceLines ==
    /\ pc = "analysed"
    /\ LET twoslashCodeBlock == SplitCode(twoslash.code)
           edited == EditLines(lines, twoslashCodeBlock)
           res == DeleteSurplus(edited, annots, EditCalls(lines, twoslashCodeBlock),
                                Len(twoslashCodeBlock),
                                [n |-> Len(twoslashCodeBlock), ec |-> ecLen])
       IN  /\ lines' = res.doc
           /\ annots' = res.annots
           /\ calls' = res.calls
           /\ failed' = res.threw
           /\ pc' = IF res.threw THEN "threw" ELSE "replaced"
    /\ UNCHANGED <<scope, code, cutVars, ecLen, twoslash, hookVars, cmpVars, popupVars>>

\* mutant: the error loop rewrites the text of the line it has annotated
AddErrorsThenEdit ==
    /\ pc = "replaced"
    /\ LET adds == ErrorAdds(twoslash.errors, lines)
           edits == IF adds = <<>> THEN <<>>
                    ELSE <<Call("editText", adds[1].line, Len(lines), <<>>)>>
       IN  /\ annots' = Attach(annots, adds)
           /\ calls' = calls \o adds \o edits
           /\ lines' = IF adds = <<>> THEN lines
                       ELSE [lines EXCEPT ![adds[1].line + 1] = OldText]
    /\ pc' = "errors"
    /\ UNCHANGED <<scope, code, failed, cutVars, ecLen, twoslash, hookVars, cmpVars, popupVars>>

AddErrors ==
    /\ pc = "replaced"
    /\ LET adds == ErrorAdds(twoslash.errors, lines)
       IN  /\ annots' = Attach(annots, adds)
           /\ calls' = calls \o adds
    /\ pc' = "errors"
    /\ UNCHANGED <<scope, code, lines, failed, cutVars, ecLen, twoslash, hookVars, cmpVars, popupVars>>

AddQueries ==
    /\ pc = "errors"
    /\ LET adds == QueryAdds(twoslash.queries, lines)
       IN  /\ annots' = Attach(annots, adds)
           /\ calls' = calls \o adds
    /\ pc' = "queries"
    /\ UNCHANGED <<scope, code, lines, failed, cutVars, ecLen, twoslash, hookVars, cmpVars, popupVars>>

AddHighlights ==
    /\ pc = "queries"
    /\ LET adds == HighlightAdds(twoslash.highlights, lines)
       IN  /\ annots' = Attach(annots, adds)
           /\ calls' = calls \o adds
    /\ pc' = "highlights"
    /\ UNCHANGED <<scope, code, lines, failed, cutVars, ecLen, twoslash, hookVars, cmpVars, popupVars>>

AddHovers ==
    /\ pc = "highlights"
    /\ LET adds == HoverAdds(twoslash.hovers, twoslash, lines)
       IN  /\ annots' = Attach(annots, adds)
           /\ calls' = calls \o adds
    /\ pc' = "hovers"
    /\ UNCHANGED <<scope, code, lines, failed, cutVars, ecLen, twoslash, hookVars, cmpVars, popupVars>>

\* mutant: the hover loop stands behind the completion loop
AddCompletionsThenHovers ==
    /\ pc = "hovers"
    /\ LET res == CompletionLoop(twoslash.completions, lines, annots, calls)
           adds == HoverAdds(twoslash.hovers, twoslash, lines)
       IN  /\ annots' = Attach(res.annots, adds)
           /\ calls' = res.calls \o adds
    /\ pc' = "completions"
    /\ UNCHANGED <<scope, code, lines, failed, cutVars, ecLen, twoslash, hookVars, cmpVars, popupVars>>

AddCompletions ==
    /\ pc = "hovers"
    /\ LET res == CompletionLoop(twoslash.completions, lines, annots, calls)
       IN  /\ annots' = res.annots
           /\ calls' = res.calls
    /\ pc' = "completions"
    /\ UNCHANGED <<scope, code, lines, failed, cutVars, ecLen, twoslash, hookVars, cmpVars, popupVars>>

AddTags ==
    /\ pc = "completions"
    /\ LET adds == TagAdds(twoslash.tags, lines)
       IN  /\ annots' = Attach(annots, adds)
           /\ calls' = calls \o adds
    /\ pc' = "tags"
    /\ UNCHANGED <<scope, code, lines, failed, cutVars, ecLen, twoslash, hookVars, cmpVars, popupVars>>

\* the hook returns, or the exception of a host call leaves it
Return ==
    /\ pc \in {"tags", "threw", "skipped"}
    /\ codeBlock' = NoCodeBlock
    /\ pc' = "idle"
    /\ code' = <<>>
    /\ lines' = <<>>
    /\ failed' = FALSE
    /\ ecLen' = 0
    /\ twoslash' = NoResult
    /\ annots' = <<>>
    /\ calls' = <<>>
    /\ UNCHANGED <<scope, options, cutVars, cmpVars, popupVars>>

NextPhase ==
    \/ SkipBlock
    \/ Twoslasher
    \/ ReplaceLines
    \/ AddErrors
    \/ AddQueries
    \/ AddHighlights
    \/ AddHovers
    \/ AddCompletions
    \/ AddTags
    \/ Return

InitReconcile == InitBlock("reconcile")

InitAnnotate == InitBlock("annotate")

InitCompletion == InitBlock("completion")

SpecReconcile == InitReconcile /\ [][NextPhase]_vars

SpecAnnotate == InitAnnotate /\ [][NextPhase]_vars

SpecCompletion == InitCompletion /\ [][NextPhase]_vars

InitUnresolved == InitBlock("unresolved")

InitOverlap == InitBlock("overlap")

InitTrigger == InitBlock("trigger")

\* checkForCustomTagsAndMerge is applied to the configured twoslashOptions
MergeCustomTags ==
    /\ pc = "idle"
    /\ options.merged = NoTwoslashOptions
    /\ options' = [options EXCEPT !.merged = checkForCustomTagsAndMerge(options.twoslashOptions)]
    /\ UNCHANGED <<scope, pc, code, lines, failed, cutVars, pipeVars, codeBlock, cmpVars, popupVars>>

\* const { ..., twoslashOptions = checkForCustomTagsAndMerge(options.twoslashOptions) }
\*     = options
\* a destructuring default is evaluated only when the property is undefined
DestructuredTwoslashOptions(opts) ==
    IF opts.twoslashOptions.defined
    THEN opts.twoslashOptions
    ELSE checkForCustomTagsAndMerge(opts.twoslashOptions)

\* ecTwoSlash(options): createTwoslasher({ ...twoslashOptions }) and every
\* twoslasher call get the destructured twoslashOptions
ecTwoSlash ==
    /\ pc = "idle"
    /\ options.forwarded = NoTwoslashOptions
    /\ options' = [options EXCEPT !.forwarded = DestructuredTwoslashOptions(options)]
    /\ UNCHANGED <<scope, pc, code, lines, failed, cutVars, pipeVars, codeBlock, cmpVars, popupVars>>

InitTags == InitBlock("tags")

SpecPlugin == InitTags /\ [][ecTwoSlash]_vars

SpecTags == InitTags /\ [][MergeCustomTags]_vars

SpecTrigger == InitTrigger /\ [][NextPhase]_vars

\* one call compareNodes(node1, node2, checks)
CompareNodes ==
    /\ pc = "idle"
    /\ ~compared.called
    /\ \E node1 \in ComparedNodes, node2 \in ComparedNodes, checks \in SUBSET CheckFields :
        compared' = [called |-> TRUE, node1 |-> node1, node2 |-> node2, checks |-> checks,
                     result |-> compareNodes(node1, node2, checks)]
    /\ UNCHANGED <<scope, pc, code, lines, failed, cutVars, pipeVars, hookVars, popupVars>>

InitCompare == InitBlock("compare")

SpecCompare == InitCompare /\ [][CompareNodes]_vars

SpecOverlap == InitOverlap /\ [][NextPhase]_vars

SpecUnresolved == InitUnresolved /\ [][NextPhase]_vars

----------------------------------------------------------------------------
(* The popup script: setupTooltip *)

\* the hide timers one run may start
MaxTimers == 16

\* clearTimeout(hideTimeout)
clearTimeout(pending, id) == {t \in pending : t.id # id}

\* hideTimeout = setTimeout(callback, TimeoutDelay)
setTimeout(pending, id, callback) == pending \cup {[id |-> id, callback |-> callback]}

\* ToolTip.matches(":hover"): the popup is no descendant of ToolTip once
\* setupTooltip has taken it out
ToolTipHovered(at) == at = "target"

\* ToolTip.addEventListener("mouseenter", ...): updatePosition appends the
\* popup to the code block at once
ToolTipMouseEnter ==
    /\ pc = "idle"
    /\ scope = "popup"
    /\ pointer = "outside"
    /\ pointer' = "target"
    /\ timers' = clearTimeout(timers, hideTimeout)
    /\ popupAttached' = TRUE
    /\ hideRuns' = 0
    /\ UNCHANGED <<scope, pc, code, lines, failed, cutVars, pipeVars, hookVars, cmpVars,
                   isMouseOverTooltip, hideTimeout, timerCount, removeChildThrew>>

\* ToolTip.addEventListener("mouseleave", ...)
ToolTipMouseLeave ==
    /\ pc = "idle"
    /\ scope = "popup"
    /\ pointer = "target"
    /\ timerCount < MaxTimers
    /\ pointer' = "outside"
    /\ timerCount' = timerCount + 1
    /\ hideTimeout' = timerCount + 1
    /\ timers' = setTimeout(timers, timerCount + 1, "unlessOverTooltip")
    /\ UNCHANGED <<scope, pc, code, lines, failed, cutVars, pipeVars, hookVars, cmpVars,
                   popupAttached, isMouseOverTooltip, hideRuns, removeChildThrew>>

\* hoverAnnotation.addEventListener("mouseenter", ...): the popup gets mouse
\* events only while it is in the document
PopupMouseEnter ==
    /\ pc = "idle"
    /\ scope = "popup"
    /\ pointer = "outside"
    /\ popupAttached
    /\ pointer' = "popup"
    /\ timers' = clearTimeout(timers, hideTimeout)
    /\ isMouseOverTooltip' = TRUE
    /\ UNCHANGED <<scope, pc, code, lines, failed, cutVars, pipeVars, hookVars, cmpVars,
                   popupAttached, hideTimeout, timerCount, hideRuns, removeChildThrew>>

\* hoverAnnotation.addEventListener("mouseleave", ...)
PopupMouseLeave ==
    /\ pc = "idle"
    /\ scope = "popup"
    /\ pointer = "popup"
    /\ timerCount < MaxTimers
    /\ pointer' = "outside"
    /\ isMouseOverTooltip' = FALSE
    /\ timerCount' = timerCount + 1
    /\ hideTimeout' = timerCount + 1
    /\ timers' = setTimeout(timers, timerCount + 1, "unlessToolTipHovered")
    /\ UNCHANGED <<scope, pc, code, lines, failed, cutVars, pipeVars, hookVars, cmpVars,
                   popupAttached, hideRuns, removeChildThrew>>

\* a pending timer fires; its callback calls hideTooltip unless the pointer
\* is where the callback looks for it. hideTooltip ends with
\* expressiveCodeBlock.removeChild(hoverAnnotation), which throws when the
\* popup is no child of the code block
TimerFires ==
    /\ pc = "idle"
    /\ scope = "popup"
    /\ \E t \in timers :
        LET hides == IF t.callback = "unlessOverTooltip"
                     THEN ~isMouseOverTooltip
                     ELSE ~ToolTipHovered(pointer)
        IN  /\ timers' = timers \ {t}
            /\ hideRuns' = IF hides THEN Min({hideRuns + 1, 2}) ELSE hideRuns
            /\ popupAttached' = IF hides THEN FALSE ELSE popupAttached
            /\ removeChildThrew' = (removeChildThrew \/ (hides /\ ~popupAttached))
            /\ pointer' = IF hides /\ pointer = "popup" THEN "outside" ELSE pointer
    /\ UNCHANGED <<scope, pc, code, lines, failed, cutVars, pipeVars, hookVars, cmpVars,
                   isMouseOverTooltip, hideTimeout, timerCount>>

InitPopup == InitBlock("popup")

NextPopup ==
    \/ ToolTipMouseEnter
    \/ ToolTipMouseLeave
    \/ PopupMouseEnter
    \/ PopupMouseLeave
    \/ TimerFires

SpecPopup == InitPopup /\ [][NextPopup]_vars

----------------------------------------------------------------------------
(* Region Cutter properties *)

IsCutMarker(line) ==
    PatCutBefore(line) \/ reCutAfter(line) \/ reCutStart(line) \/ reCutEnd(line)

CutDone == pc \in {"cut", "failed"} /\ preCut # <<>>

\* a leading cut marker at line k and no other cut marker
OnlyLeadingCutAt(arr, k) ==
    /\ PatCutBefore(arr[k + 1])
    /\ \A i \in 0..(Len(arr) - 1) : i # k => ~IsCutMarker(arr[i + 1])

\* C1: with a leading cut marker (// ---cut--- or // ---cut-before---) at
\* line k and no other cut marker, processCutOffPoints selects exactly the
\* indices 0..k and the surviving lines are the original lines k+1..last
C1_LeadingCutSelectsPrefix ==
    \A k \in 0..(Len(preCut) - 1) :
        (CutDone /\ OnlyLeadingCutAt(preCut, k)) =>
            /\ SetOf(linesToCut) = 0..k
            /\ lines = SubSeq(preCut, k + 2, Len(preCut))

\* the 0-based indices of the cut-start and cut-end lines, ascending
RECURSIVE PairMarkers(_, _)
PairMarkers(arr, i) ==
    IF i > Len(arr) THEN <<>>
    ELSE (IF reCutStart(arr[i]) \/ reCutEnd(arr[i]) THEN <<i - 1>> ELSE <<>>)
         \o PairMarkers(arr, i + 1)

\* j >= 1 non-nested cut-start ... cut-end pairs and no other cut marker
WellFormedPairs(arr) ==
    LET ms == PairMarkers(arr, 1)
    IN  /\ Len(ms) >= 2
        /\ Len(ms) % 2 = 0
        /\ \A p \in 1..Len(ms) :
              IF p % 2 = 1 THEN reCutStart(arr[ms[p] + 1]) ELSE reCutEnd(arr[ms[p] + 1])
        /\ \A i \in 1..Len(arr) : ~PatCutBefore(arr[i]) /\ ~reCutAfter(arr[i])

InsidePair(arr, idx) ==
    LET ms == PairMarkers(arr, 1)
    IN  \E p \in 1..(Len(ms) \div 2) : ms[2 * p - 1] <= idx /\ idx <= ms[2 * p]

Survivors(arr, cut) ==
    LET keep == SelectSeq([i \in 1..Len(arr) |-> i - 1], LAMBDA idx : idx \notin cut)
    IN  [p \in 1..Len(keep) |-> arr[keep[p] + 1]]

\* C2: with j >= 1 well-formed, non-nested cut-start ... cut-end pairs and no
\* other cut marker, exactly j sections are recorded, one per pair in scan
\* order, exactly the lines from each start marker to its end marker are
\* deleted and every line outside the pairs survives
C2_SectionPairing ==
    (CutDone /\ WellFormedPairs(preCut)) =>
        LET ms == PairMarkers(preCut, 1)
        IN  /\ pc = "cut"
            /\ Len(cutSections) = Len(ms) \div 2
            /\ \A p \in 1..Len(cutSections) :
                  cutSections[p] = [start |-> ms[2 * p - 1], end |-> ms[2 * p]]
            /\ SetOf(linesToCut) = {i \in 0..(Len(preCut) - 1) : InsidePair(preCut, i)}
            /\ lines = Survivors(preCut, {i \in Indices(preCut) : InsidePair(preCut, i)})

C2_Witness ==
    /\ pc = "cut"
    /\ WellFormedPairs(preCut)
    /\ Len(cutSections) = 2
    /\ Len(lines) = 1

\* a cut-before marker at line k, a cut-after marker at line j > k, nothing else
OnlyBeforeAfterAt(arr, k, j) ==
    /\ k < j
    /\ PatCutBefore(arr[k + 1])
    /\ reCutAfter(arr[j + 1])
    /\ \A i \in 0..(Len(arr) - 1) : i \notin {k, j} => ~IsCutMarker(arr[i + 1])

\* C3: with a cut-before marker at line k, a cut-after marker at line j > k
\* and no other cut marker, the surviving lines are exactly the original
\* lines k+1..j-1 in their original order
C3_BeforeAfterKeepsMiddle ==
    \A k, j \in 0..(Len(preCut) - 1) :
        (CutDone /\ OnlyBeforeAfterAt(preCut, k, j)) =>
            lines = SubSeq(preCut, k + 2, j)

----------------------------------------------------------------------------
(* Marker Scanner properties *)

\* the names a compiler-flag comment may carry (\w+ names of options)
FlagNames == {"strict"}

CutBodies ==
    {"---cut---", "---cut-before---", "---cut-after---", "---cut-start---",
     "---cut-end---"}

StripWs(line) == SelectSeq(line, LAMBDA t : t \notin Whitespace)

\* the whole line, whitespace ignored, is a compiler-flag comment // @flag
WholeLineFlag(line) == StripWs(line) \in {<<"//", "@", n>> : n \in FlagNames}

\* the whole line, whitespace ignored, is a query marker // ^? or // ^|
WholeLineQuery(line) == StripWs(line) \in {<<"//", "^", "?">>, <<"//", "^", "|">>}

\* the whole line, whitespace ignored, is a cut marker
WholeLineCut(line) == StripWs(line) \in {<<"//", c>> : c \in CutBodies}

FlagsCleaned == pc = "cleaned"

\* C9: cleanFlags deletes exactly the lines that are compiler-flag comments
\* or query markers and no other line; the surviving lines keep their order
\* and are re-indexed contiguously from 0
C9_CleanFlagsDeletesExactlyMarkers ==
    FlagsCleaned =>
        LET marked == {i \in 0..(Len(code) - 1) :
                          WholeLineFlag(code[i + 1]) \/ WholeLineQuery(code[i + 1])}
        IN  /\ SetOf(tsFlags \o twoSlashFlags) = marked
            /\ lines = Survivors(code, marked)

\* C10: a line is treated as a compiler-flag, query or cut marker only when
\* the whole line, surrounding whitespace ignored, is that marker, and every
\* line matches at most one marker kind
C10_WholeLineClassification ==
    FlagsCleaned =>
        \A i \in 0..(Len(code) - 1) :
            LET line == code[i + 1]
                asFlag == i \in SetOf(tsFlags)
                asQuery == i \in SetOf(twoSlashFlags)
                asCut == IsCutMarker(line)
            IN  /\ asFlag => WholeLineFlag(line)
                /\ asQuery => WholeLineQuery(line)
                /\ asCut => WholeLineCut(line)
                /\ ~(asFlag /\ asQuery) /\ ~(asFlag /\ asCut) /\ ~(asQuery /\ asCut)

----------------------------------------------------------------------------
(* Text Reconciler properties *)

\* the reconciliation of the block has run (to its end or to an exception)
Reconciled == pc \in {"replaced", "threw"}

DeleteLineCalls == SelectSeq(calls, LAMBDA c : c.op = "deleteLine")

\* C4: when the document has m lines and the rewritten text n <= m lines,
\* reconciliation issues exactly m - n single-line deletions, each of them
\* targeting index n, and leaves a document of exactly n lines; it never
\* leaves more lines in the document than the rewritten text has.
C4_ReconcileDeletesSurplus ==
    Reconciled =>
        LET m == Len(code)
            n == Len(twoslash.code)
        IN  /\ Len(lines) <= n
            /\ n <= m =>
                /\ Len(DeleteLineCalls) = m - n
                /\ \A i \in 1..Len(DeleteLineCalls) : DeleteLineCalls[i].line = n
                /\ Len(lines) = n

\* C5: after reconciliation of m document lines against n rewritten lines the
\* document has min(m, n) lines, line i carries the text of rewritten line i
\* for every i < min(m, n), and when n > m the extra rewritten lines are
\* dropped without an error and without adding lines.
C5_ReconcileRewritesPrefix ==
    Reconciled =>
        LET m == Len(code)
            n == Len(twoslash.code)
            k == Min({m, n})
        IN  /\ Len(lines) = k
            /\ \A i \in 1..k : lines[i] = twoslash.code[i]
            /\ n > m => (~failed /\ Len(lines) = m)

----------------------------------------------------------------------------
(* Overlap Resolver properties *)

\* every annotation loop of the block has run
Annotated == pc = "tags"

\* the annotations of every line of the document
AllAnnotations == UNION {SetOf(annots[i]) : i \in 1..Len(annots)}

AnnotationsOn(l) == IF HasLine(lines, l) THEN SetOf(annots[l + 1]) ELSE {}

SameLineAndText(h, q) == h.line = q.line /\ h.text = q.text

\* C6: for every hover fact h and query fact q with the same line and the
\* same text, the final annotations of the block hold no hover popup for h;
\* the line carries the static annotation of the query instead.
C6_QueryDemotesHover ==
    Annotated =>
        \A i \in 1..Len(twoslash.hovers), j \in 1..Len(twoslash.queries) :
            LET h == twoslash.hovers[i]
                q == twoslash.queries[j]
            IN  SameLineAndText(h, q) =>
                    /\ \A a \in AllAnnotations : ~(a.kind = "hover" /\ a.node = h)
                    /\ HasLine(lines, q.line) =>
                           \E a \in AnnotationsOn(q.line) : a.kind = "static" /\ a.node = q

\* a hover with the line and text of a query, the query's static annotation
\* on a line that also carries the popup of another hover
C6_Witness ==
    /\ Annotated
    /\ \E i \in 1..Len(twoslash.hovers), j \in 1..Len(twoslash.queries) :
        /\ SameLineAndText(twoslash.hovers[i], twoslash.queries[j])
        /\ ~HasErrorFor(twoslash.hovers[i], twoslash)
        /\ \E a \in AnnotationsOn(twoslash.queries[j].line) : a.kind = "static"
        /\ \E a \in AnnotationsOn(twoslash.queries[j].line) : a.kind = "hover"

SamePlace(h, d) ==
    /\ h.line = d.line
    /\ h.start = d.start
    /\ h.length = d.length
    /\ h.character = d.character

ErrorAnnotationCalls ==
    SelectSeq(calls, LAMBDA c :
        c.op = "addAnnotation" /\ c.ann.kind \in {"error-underline", "error-box"})

\* C7: for every hover fact h and diagnostic fact d with identical line,
\* start, length and character, no annotation for h is in the final set of
\* the block, and the underline and the box of the diagnostic are on its
\* line exactly as they were attached.
C7_DiagnosticDropsHover ==
    Annotated =>
        /\ \A i \in 1..Len(twoslash.hovers), j \in 1..Len(twoslash.errors) :
            LET h == twoslash.hovers[i]
                d == twoslash.errors[j]
            IN  SamePlace(h, d) =>
                    /\ \A a \in AllAnnotations : a.node # h
                    /\ HasLine(lines, d.line) =>
                        /\ TwoslashErrorUnderlineAnnotation(d) \in AnnotationsOn(d.line)
                        /\ TwoslashErrorBoxAnnotation(d, lines[d.line + 1])
                               \in AnnotationsOn(d.line)
        /\ \A k \in 1..Len(ErrorAnnotationCalls) :
               ErrorAnnotationCalls[k].ann \in AnnotationsOn(ErrorAnnotationCalls[k].line)

\* a hover at the place of a diagnostic, with no query of its text, beside
\* another hover whose popup was attached
C7_Witness ==
    /\ Annotated
    /\ \E i \in 1..Len(twoslash.hovers), j \in 1..Len(twoslash.errors) :
        /\ SamePlace(twoslash.hovers[i], twoslash.errors[j])
        /\ ~HasQueryFor(twoslash.hovers[i], twoslash)
        /\ \E a \in AnnotationsOn(twoslash.errors[j].line) : a.kind = "error-box"
        /\ \E a \in AnnotationsOn(twoslash.errors[j].line) : a.kind = "hover"

----------------------------------------------------------------------------
(* Fact Normalizer properties *)

CompletionCalls ==
    SelectSeq(calls, LAMBDA c : c.op = "addAnnotation" /\ c.ann.kind = "completion")

\* C8: for a completion fact with N candidates, processCompletion returns
\* an item list of exactly min(N, 5) entries, which are the first min(N, 5)
\* candidates in their original relative order.
C8_CompletionItemsCapped ==
    \A k \in 1..Len(CompletionCalls) :
        LET candidates == CompletionCalls[k].ann.node.completions
            items == CompletionCalls[k].ann.completion.items
        IN  /\ Len(items) = Min({Len(candidates), 5})
            /\ \A i \in 1..Len(items) : items[i].name = candidates[i].name

\* a completion fact with more than five candidates, not all of one name,
\* has been processed
C8_Witness ==
    \E k \in 1..Len(CompletionCalls) :
        /\ Len(CompletionCalls[k].ann.node.completions) = 6
        /\ Len(CompletionCalls[k].ann.completion.items) = 5
        /\ CompletionCalls[k].ann.node.completions[1].name
               # CompletionCalls[k].ann.node.completions[6].name

----------------------------------------------------------------------------
(* Attachment Emitter properties *)

\* every fact of the twoslasher's result, whatever its kind
AllFacts ==
    SetOf(twoslash.errors) \cup SetOf(twoslash.queries) \cup SetOf(twoslash.highlights)
        \cup SetOf(twoslash.hovers) \cup SetOf(twoslash.completions) \cup SetOf(twoslash.tags)

\* facts whose annotation loop attaches them whenever their line exists
UnconditionalFacts == AllFacts \ SetOf(twoslash.hovers)

AddAnnotationCalls == SelectSeq(calls, LAMBDA c : c.op = "addAnnotation")

\* C11: a fact whose line index resolves to no document line gets no
\* annotation and raises no error, the facts after it are still processed,
\* and every attached annotation sits on a line of the final document.
C11_UnresolvedFactsDropped ==
    Annotated =>
        /\ ~failed
        /\ \A f \in AllFacts :
               ~HasLine(lines, f.line) => \A a \in AllAnnotations : a.node # f
        /\ \A f \in UnconditionalFacts :
               HasLine(lines, f.line) => \E a \in AnnotationsOn(f.line) : a.node = f
        /\ \A k \in 1..Len(AddAnnotationCalls) : HasLine(lines, AddAnnotationCalls[k].line)

\* two hovers, the first on a line the document does not have, the second
\* attached; a tag on the missing line as well
C11_Witness ==
    /\ Annotated
    /\ Len(twoslash.hovers) = 2
    /\ ~HasLine(lines, twoslash.hovers[1].line)
    /\ \E a \in AllAnnotations : a.kind = "hover" /\ a.node = twoslash.hovers[2]
    /\ \E i \in 1..Len(twoslash.tags) : ~HasLine(lines, twoslash.tags[i].line)

----------------------------------------------------------------------------
(* Host document contract *)

LineEditCalls == SelectSeq(calls, LAMBDA c : c.op \in {"deleteLine", "editText"})

\* C12: every line deletion and every text edit issued for a block targets
\* a line index the document has at the moment of the call; each
\* deleteLine(n) of the reconciliation is made while the document has more
\* than n lines, also when includes lengthened the analysed text.
C12_LineCallsTargetExistingLines ==
    \A k \in 1..Len(LineEditCalls) :
        /\ LineEditCalls[k].line >= 0
        /\ LineEditCalls[k].line < LineEditCalls[k].docLen

\* the place of an annotation kind in the order errors, hover/static,
\* completions, highlights, tags
KindRank(kind) ==
    CASE kind \in {"error-underline", "error-box"} -> 1
      [] kind \in {"hover", "static"} -> 2
      [] kind = "completion" -> 3
      [] kind = "highlight" -> 4
      [] kind = "tag" -> 5

\* C13: the annotations of a block are attached in the kind order errors,
\* hover/static, completions, highlights, custom tags; no annotation of an
\* earlier kind is attached after one of a later kind.
C13_AttachmentKindOrder ==
    \A i, j \in 1..Len(AddAnnotationCalls) :
        i < j => KindRank(AddAnnotationCalls[i].ann.kind)
                     <= KindRank(AddAnnotationCalls[j].ann.kind)

----------------------------------------------------------------------------
(* Overlap Resolver properties: hovers under a completion *)

\* the completion loop has run
CompletionsDone == pc \in {"completions", "tags"}

HoverAnnotationsOf(h) == {a \in AllAnnotations : a.kind = "hover" /\ a.node = h}

DeleteAnnotationCalls == SelectSeq(calls, LAMBDA c : c.op = "deleteAnnotation")

\* the hover's original range reaches over the first column of the completion
OverlapsLeadingEdge(h, c) ==
    /\ h.line = c.line
    /\ h.character < c.character
    /\ c.character <= h.character + h.length

\* C14: when a completion is processed on a line, every hover annotation of
\* that line that starts at the completion's start column is removed, and
\* when a removed hover reached over the completion's leading edge the
\* completion annotation starts at the hover's original start column.
C14_CompletionRemovesHover ==
    CompletionsDone =>
        \A i \in 1..Len(twoslash.completions), j \in 1..Len(twoslash.hovers) :
            LET c == twoslash.completions[i]
                h == twoslash.hovers[j]
            IN  /\ (h.line = c.line /\ h.character = c.character /\ HasLine(lines, c.line))
                       => HoverAnnotationsOf(h) = {}
                /\ (/\ OverlapsLeadingEdge(h, c)
                    /\ \E k \in 1..Len(DeleteAnnotationCalls) :
                           DeleteAnnotationCalls[k].ann.node = h)
                       => \A a \in AnnotationsOn(c.line) :
                              (a.kind = "completion" /\ a.node = c)
                                  => a.columnStart = h.character

\* the annotation a of line l (1-based) is on the same line, unchanged, in
\* the next state
StaysAttached(l, a) == l <= Len(annots') /\ a \in SetOf(annots'[l])

\* C15: overlap resolution never removes or alters a diagnostic (underline
\* or box) or a custom-tag annotation: once attached it stays on its line
\* with the same column range through every later step of the block; only
\* hover annotations are deleted or get another range.
C15_OnlyHoversChange ==
    [][pc' # "idle" =>
          /\ \A l \in 1..Len(annots) : \A k \in 1..Len(annots[l]) :
                 annots[l][k].kind # "hover" => StaysAttached(l, annots[l][k])
          /\ \A k \in 1..Len(calls') :
                 calls'[k].op = "deleteAnnotation" => calls'[k].ann.kind = "hover"]_vars

\* a completion has deleted a hover from a line that carries an error
\* underline, an error box and a custom tag
C15_Witness ==
    /\ Annotated
    /\ \E k \in 1..Len(DeleteAnnotationCalls) :
        LET l == DeleteAnnotationCalls[k].line
        IN  /\ \E a \in AnnotationsOn(l) : a.kind = "error-underline"
            /\ \E a \in AnnotationsOn(l) : a.kind = "error-box"
            /\ \E a \in AnnotationsOn(l) : a.kind = "tag"
            /\ \E a \in AnnotationsOn(l) :
                   a.kind = "hover" /\ a.columnStart # a.node.character

\* hover popups, static query results and completions
PrimaryKinds == {"hover", "static", "completion"}

SameRange(a, b) == a.columnStart = b.columnStart /\ a.columnEnd = b.columnEnd

\* C16: after all annotations of a block are attached, no two primary
\* annotations (hover popup, static query, completion) of the same line
\* have the same inline column range.
C16_OnePrimaryPerRange ==
    Annotated =>
        \A l \in 1..Len(annots) : \A i, j \in 1..Len(annots[l]) :
            (/\ i < j
             /\ annots[l][i].kind \in PrimaryKinds
             /\ annots[l][j].kind \in PrimaryKinds)
                => ~SameRange(annots[l][i], annots[l][j])

----------------------------------------------------------------------------
(* Fact Normalizer properties: custom tags *)

\* the nearest line of the document at or after index l, else the nearest
\* before it, else -1
NearestLine(doc, l) ==
    LET forward == {k \in Indices(doc) : k >= l}
        backward == {k \in Indices(doc) : k < l}
    IN  IF forward # {} THEN Min(forward)
        ELSE IF backward # {} THEN Max(backward)
        ELSE -1

\* C17: a custom tag whose declared line is not addressable is attached to
\* the nearest addressable line, searched forward and then backward; it is
\* dropped only when the document has no addressable line at all.
C17_TagFallsBackToNearestLine ==
    Annotated =>
        \A i \in 1..Len(twoslash.tags) :
            LET t == twoslash.tags[i]
                k == NearestLine(lines, t.line)
            IN  k >= 0 => \E a \in AnnotationsOn(k) : a.kind = "tag" /\ a.node = t

----------------------------------------------------------------------------
(* Trigger properties *)

\* tokens i..j of the meta string form one whole word
IsWord(meta, i, j) ==
    /\ \A k \in i..j : meta[k] \in WordTokens
    /\ (IF i = 1 THEN TRUE ELSE meta[i - 1] \notin WordTokens)
    /\ (IF j = Len(meta) THEN TRUE ELSE meta[j + 1] \notin WordTokens)

ContainsWholeWord(meta, word) ==
    \E i \in 1..Len(meta) : \E j \in i..Len(meta) :
        IsWord(meta, i, j) /\ SubSeq(meta, i, j) = word

\* the hook has been entered with a block
BlockEntered == pc # "idle"

\* the block was handed to the twoslasher
Transformed == pc \notin {"idle", "skipped"}

----------------------------------------------------------------------------
(* Custom tag properties *)

TagsMerged == options.merged # NoTwoslashOptions

\* the custom tags the user configured
GivenTags ==
    IF options.twoslashOptions.defined /\ options.twoslashOptions.hasCustomTags
    THEN options.twoslashOptions.customTags
    ELSE <<>>

\* the first position of a tag in a list
FirstAt(tags, tag) == Min({i \in 1..Len(tags) : tags[i] = tag})

\* C19: checkForCustomTagsAndMerge returns a customTags list that is the
\* four default tags annotate, log, warn, error in that order, followed by
\* the user's custom tags in first-occurrence order, with no tag twice, for
\* undefined options, for custom tags that repeat a default and for custom
\* tags that repeat each other; applied to its own result it changes nothing.
C19_MergedTagsDefaultsFirstNoDuplicates ==
    TagsMerged =>
        LET out == options.merged.customTags
            extra == SubSeq(out, 5, Len(out))
        IN  /\ Len(out) >= 4
            /\ SubSeq(out, 1, 4) = <<"annotate", "log", "warn", "error">>
            /\ \A i, j \in 1..Len(out) : i < j => out[i] # out[j]
            /\ SetOf(extra) = SetOf(GivenTags) \ {"annotate", "log", "warn", "error"}
            /\ \A i, j \in 1..Len(extra) :
                   i < j => FirstAt(GivenTags, extra[i]) < FirstAt(GivenTags, extra[j])
            /\ checkForCustomTagsAndMerge(options.merged) = options.merged

\* custom tags that repeat a default and repeat each other were merged
C19_Witness ==
    /\ TagsMerged
    /\ GivenTags = <<"todo", "log", "todo">>
    /\ Len(options.merged.customTags) = 5

----------------------------------------------------------------------------
(* Region Cutter properties: unmatched markers *)

\* line s is a cut-start marker and no cut-end marker follows it
UnmatchedCutStart(arr, s) ==
    /\ reCutStart(arr[s + 1])
    /\ \A e \in Indices(arr) : e > s => ~reCutEnd(arr[e + 1])

SectionLineSet(sections) ==
    UNION {sections[p].start..sections[p].end : p \in 1..Len(sections)}

----------------------------------------------------------------------------
(* Region Cutter properties: the recorded sections *)

\* C21: every recorded cut section has start < end, starts on a cut-start
\* line and ends on the nearest cut-end line after it; the sections are in
\* increasing order and each one starts after the end of the one before.
C21_SectionsOrderedAndDisjoint ==
    CutDone =>
        /\ \A p \in 1..Len(cutSections) :
              LET sec == cutSections[p]
              IN  /\ sec.start < sec.end
                  /\ sec.start \in Indices(preCut) /\ sec.end \in Indices(preCut)
                  /\ reCutStart(preCut[sec.start + 1])
                  /\ reCutEnd(preCut[sec.end + 1])
                  /\ \A e \in Indices(preCut) :
                        (sec.start < e /\ e < sec.end) => ~reCutEnd(preCut[e + 1])
        /\ \A p \in 1..(Len(cutSections) - 1) :
              cutSections[p].end < cutSections[p + 1].start

\* two sections were recorded, the first one ending on the nearer of the
\* cut-end lines behind its start
C21_Witness ==
    /\ CutDone
    /\ Len(cutSections) = 2
    /\ \E e \in Indices(preCut) : e > cutSections[1].end /\ reCutEnd(preCut[e + 1])

----------------------------------------------------------------------------
(* Region Cutter properties: the deletion list *)

NoRepeats(s) == \A i, j \in 1..Len(s) : s[i] = s[j] => i = j

\* C22: the index collection handed to deleteLines holds each line index at
\* most once and only indices of lines of the block, also when the leading
\* cut, the trailing cut and the interior sections overlap; with nothing to
\* cut the document is left alone.
C22_CutListIsASet ==
    CutDone =>
        /\ NoRepeats(linesToCut)
        /\ SetOf(linesToCut) \subseteq Indices(preCut)
        /\ linesToCut = <<>> => (pc = "cut" /\ lines = preCut)

----------------------------------------------------------------------------
(* Region Cutter properties: independence of the blocks processed before *)

\* the list processCutOffPoints builds for a block when no block was
\* processed before it (reCutBefore.lastIndex = 0)
FreshCutList(arr) ==
    CutList(arr,
            FindCutBefore(arr, 1, 0).idx,
            FindIndex({index \in Indices(arr) : reCutAfter(arr[index + 1])}),
            ScanCutSections(arr, 0, <<>>))

\* C23: the lines selected for cutting depend on the block's lines only:
\* whatever blocks were processed before, the selection is the one made for
\* the same lines with no history, and a leading cut marker on the first line
\* of a block is always found.
C23_CutSelectionIgnoresHistory ==
    CutDone =>
        /\ SetOf(linesToCut) = SetOf(FreshCutList(preCut))
        /\ PatCutBefore(preCut[1]) => 0 \in SetOf(linesToCut)

----------------------------------------------------------------------------
(* compareNodes properties *)

PositionFields == {"line", "start", "character", "length"}

\* C24: compareNodes(a, b, checks) is true exactly when every enabled field
\* among line, start, character and length is equal in a and b and, with
\* text enabled and neither node a completion, the texts are equal; with a
\* completion on either side the text is not compared; the result is the
\* same with a and b exchanged, and it is true when no field is enabled.
C24_CompareNodesChecksEnabledFields ==
    compared.called =>
        LET a == compared.node1
            b == compared.node2
            checks == compared.checks
            textCompared == "text" \in checks /\ ~isNodeCompletion(a) /\ ~isNodeCompletion(b)
        IN  /\ compared.result =
                  (/\ \A f \in checks \cap PositionFields : a[f] = b[f]
                   /\ textCompared => a.text = b.text)
            /\ compared.result = compareNodes(b, a, checks)
            /\ checks = {} => compared.result

\* a completion and a hover with different texts compare equal under
\* { line, text }
C24_Witness ==
    /\ compared.called
    /\ compared.checks = {"line", "text"}
    /\ isNodeCompletion(compared.node1) /\ ~isNodeCompletion(compared.node2)
    /\ compared.node1.text # compared.node2.text
    /\ compared.result

----------------------------------------------------------------------------
(* Overlap Resolver properties: the hovers that stay *)

HoversAttached == pc \in {"hovers", "completions", "tags"}

HoverPopupCalls ==
    SelectSeq(calls, LAMBDA c : c.op = "addAnnotation" /\ c.ann.kind = "hover")

\* C25: a hover fact whose line exists is attached as a hover popup whenever
\* no query has its line and its text and no diagnostic has its line, start,
\* length and character; a query with the same text on another line does not
\* keep the popup away.
C25_UnclaimedHoverAttached ==
    HoversAttached =>
        \A i \in 1..Len(twoslash.hovers) :
            LET h == twoslash.hovers[i]
            IN  (/\ HasLine(lines, h.line)
                 /\ \A j \in 1..Len(twoslash.queries) : ~SameLineAndText(h, twoslash.queries[j])
                 /\ \A j \in 1..Len(twoslash.errors) : ~SamePlace(h, twoslash.errors[j]))
                => \E k \in 1..Len(HoverPopupCalls) :
                       /\ HoverPopupCalls[k].line = h.line
                       /\ HoverPopupCalls[k].ann.node = h

\* a popup was attached for a hover although a query on another line has
\* the hover's text
C25_Witness ==
    /\ HoversAttached
    /\ \E i \in 1..Len(twoslash.hovers), j \in 1..Len(twoslash.queries) :
        /\ twoslash.hovers[i].text = twoslash.queries[j].text
        /\ twoslash.hovers[i].line # twoslash.queries[j].line
        /\ \E k \in 1..Len(HoverPopupCalls) : HoverPopupCalls[k].ann.node = twoslash.hovers[i]

----------------------------------------------------------------------------
(* Region Cutter properties: the end of the scan *)

\* currentIndex when the while loop is left: one past the end of the last
\* recorded section, 0 when none was recorded
ScanCursor ==
    IF cutSections = <<>> THEN 0 ELSE cutSections[Len(cutSections)].end + 1

\* C26: when the scan for interior sections stops, no pair is left behind:
\* no cut-start line at or after the cursor is followed by a cut-end line.
C26_NoPairLeftBehind ==
    CutDone =>
        \A s, e \in Indices(preCut) :
            (ScanCursor <= s /\ s < e) =>
                ~(reCutStart(preCut[s + 1]) /\ reCutEnd(preCut[e + 1]))

\* the scan recorded a section and then stopped at a cut-start line that
\* has no cut-end line behind it
C26_Witness ==
    /\ CutDone
    /\ cutSections # <<>>
    /\ ScanCursor < Len(preCut)
    /\ \E s \in Indices(preCut) : ScanCursor <= s /\ reCutStart(preCut[s + 1])

----------------------------------------------------------------------------
(* Reconciliation before attachment *)

IsAttachment(c) == c.op = "addAnnotation"

IsLineEdit(c) == c.op \in {"editText", "deleteLine"}

\* C27: within one block all text reconciliation (editText, deleteLine) is
\* over before the first annotation is attached: no line edit follows an
\* addAnnotation call, and from the first addAnnotation call on the texts
\* and the number of the document's lines stay as they are.
C27_ReconcileBeforeAttach ==
    [][pc' # "idle" =>
          /\ (\E k \in 1..Len(calls) : IsAttachment(calls[k])) => lines' = lines
          /\ \A j, k \in 1..Len(calls') :
                 (j < k /\ IsAttachment(calls'[j])) => ~IsLineEdit(calls'[k])]_vars

\* an annotation is attached to a document whose first line was rewritten
\* and whose surplus line was deleted
C27_Witness ==
    /\ \E k \in 1..Len(calls) : IsAttachment(calls[k])
    /\ \E k \in 1..Len(calls) : calls[k].op = "editText"
    /\ \E k \in 1..Len(calls) : calls[k].op = "deleteLine"
    /\ Len(lines) < Len(code)
    /\ lines[1] # code[1]

----------------------------------------------------------------------------
(* Hovers before completions *)

IsHoverAttachment(c) == c.op = "addAnnotation" /\ c.ann.kind = "hover"

IsCompletionWork(c) ==
    \/ c.op = "deleteAnnotation"
    \/ c.op = "addAnnotation" /\ c.ann.kind = "completion"

HoverAttachments(log) == SelectSeq(log, IsHoverAttachment)

\* C28: in every block all hover annotations are attached before the first
\* completion is processed and none is attached afterwards: no hover is
\* attached behind a call of the completion step, and from the end of the
\* hover loop on the attached hovers stay the same list.
C28_HoversBeforeCompletions ==
    [][pc' # "idle" =>
          /\ \A j, k \in 1..Len(calls') :
                 (j < k /\ IsCompletionWork(calls'[j])) => ~IsHoverAttachment(calls'[k])
          /\ pc \in {"hovers", "completions"} =>
                 HoverAttachments(calls') = HoverAttachments(calls)]_vars

\* a completion was processed on a line that carried two hover popups and
\* deleted one of them
C28_Witness ==
    /\ pc = "completions"
    /\ Len(HoverAttachments(calls)) = 2
    /\ \E k \in 1..Len(calls) : calls[k].op = "deleteAnnotation"
    /\ \E k \in 1..Len(calls) :
        /\ calls[k].op = "addAnnotation"
        /\ calls[k].ann.kind = "completion"
        /\ \A j \in 1..Len(calls) : IsHoverAttachment(calls[j]) => calls[j].line = calls[k].line

----------------------------------------------------------------------------
(* The options forwarded to the twoslasher *)

PluginBuilt == options.forwarded # NoTwoslashOptions

\* C29: for every options object passed to ecTwoSlash (no twoslashOptions,
\* twoslashOptions without customTags, twoslashOptions with customTags) the
\* options forwarded to the twoslasher carry a customTags list that holds
\* the four default tags annotate, log, warn and error.
C29_ForwardedTagsHoldDefaults ==
    PluginBuilt =>
        /\ options.forwarded.hasCustomTags
        /\ {"annotate", "log", "warn", "error"} \subseteq SetOf(options.forwarded.customTags)

----------------------------------------------------------------------------
(* Popup script properties *)

\* C30: under every interleaving of the mouseenter and mouseleave events on
\* the hover target and on the popup and of the hide timers firing,
\* hideTooltip runs only while the popup is attached to its code block: it
\* does not run twice without a mouseenter on the hover target in between,
\* and at most one hide timer is pending at any time.
C30_HideOnlyWhileAttached ==
    /\ ~removeChildThrew
    /\ hideRuns <= 1
    /\ Cardinality(timers) <= 1

====
